---- MODULE Spec2Model ----
(***************************************************************************)
(* Model of src/graph/plot.py: the decoder of the sentinel-delimited       *)
(* binary graph dump (read_graph_binary) and the module-level script that  *)
(* builds the networkx graph, filters it, classifies entry/exit nodes,     *)
(* asks for a layout, computes the control-flow offsets and draws.         *)
(*                                                                         *)
(* Bytes are integers 0..255.  A Python str is a sequence of code points.  *)
(* Integers are 32-bit in the model checker, so a uint64 label length is   *)
(* kept exactly below 2^31-1 and saturated at Huge above it; the code only *)
(* uses it as the argument of file.read, which returns                     *)
(* min(length, bytes remaining) bytes.                                     *)
(***************************************************************************)
EXTENDS Integers, Sequences, FiniteSets, TLC

VARIABLES
    src,          \* the graph the file was produced from, or NoGraph
    buf,          \* contents of graph.bin, a sequence of bytes
    fpos,         \* position of the file object (bytes consumed so far)
    pc,           \* where the script is
    err,          \* the exception that ended the script, or "none"
    short_read,   \* some file.read(data_len) returned fewer than data_len bytes
    nodes,        \* list of (node_id, label)
    edges,        \* list of (from, to) data edges
    cfg_edges,    \* list of (from, to) control-flow edges
    G,            \* the nx.DiGraph: node set, label attribute, edge set
    predecessors, \* ids that are the `to` of a control-flow edge
    nodes_with_edges,
    G_filtered,   \* G.subgraph(nodes_with_edges).copy()
    first_node,
    nodes_with_no_successors,
    node_colors,  \* colour of each node of G_filtered
    pos,          \* layout position of each node of G_filtered
    cfg_edges_pos,\* positions returned by get_offset_pos
    fig,          \* what has been drawn on the figure
    saved         \* out.png has been written

decoded == <<nodes, edges, cfg_edges>>
built == <<G, predecessors, nodes_with_edges, G_filtered>>
classified == <<first_node, nodes_with_no_successors, node_colors>>
rendered == <<pos, cfg_edges_pos, fig, saved>>

vars == <<src, buf, fpos, pc, err, short_read, decoded, built, classified,
          rendered>>

(***************************************************************************)
(* Bounds of the model.                                                    *)
(***************************************************************************)
MaxNodes == 1
MaxEdges == 2
MaxCfg == 2
MaxRaw == 3
MaxPNodes == 1
MaxPEdges == 2
MaxPCfg == 2

Min(a, b) == IF a < b THEN a ELSE b

RECURSIVE Flatten(_)
Flatten(ss) == IF ss = <<>> THEN <<>> ELSE Head(ss) \o Flatten(Tail(ss))

SeqsUpTo(S, n) == UNION {[1..k -> S] : k \in 0..n}

(***************************************************************************)
(* struct.unpack("i", b): native (little-endian) signed 32-bit integer.    *)
(***************************************************************************)
Int32Of_big_endian(b) ==
    b[4] + 256 * b[3] + 65536 * b[2]
    + 16777216 * (IF b[1] >= 128 THEN b[1] - 256 ELSE b[1])

Int32Of(b) ==
    b[1] + 256 * b[2] + 65536 * b[3]
    + 16777216 * (IF b[4] >= 128 THEN b[4] - 256 ELSE b[4])

(***************************************************************************)
(* The test that ends the node segment and the data-edge segment.          *)
(***************************************************************************)
Sentinel == -1

IsSentinel_never(v) == FALSE

IsSentinel(v) == v = Sentinel

(***************************************************************************)
(* struct.unpack("Q", b): unsigned 64-bit integer.  TooBig: the value is   *)
(* at least 2^63 and file.read raises OverflowError.  Otherwise the value, *)
(* saturated at Huge.  A read of Huge bytes may fail to allocate its       *)
(* buffer, depending on the platform, or return the bytes that are left.   *)
(***************************************************************************)
Huge == 2147483647

TooBig(b) == b[8] >= 128

UInt64Of(b) ==
    IF b[5] # 0 \/ b[6] # 0 \/ b[7] # 0 \/ b[8] # 0 \/ b[4] >= 128
    THEN Huge
    ELSE b[1] + 256 * b[2] + 65536 * b[3] + 16777216 * b[4]

(***************************************************************************)
(* bytes.decode("utf-8"), strict.                                          *)
(***************************************************************************)
IsCont(x) == x \in 128..191

Utf8Width(b) ==
    LET b1 == b[1] IN
    IF b1 < 128 THEN 1
    ELSE IF b1 \in 194..223 /\ Len(b) >= 2 /\ IsCont(b[2]) THEN 2
    ELSE IF b1 \in 224..239 /\ Len(b) >= 3 /\ IsCont(b[2]) /\ IsCont(b[3])
            /\ (b1 = 224 => b[2] >= 160) /\ (b1 = 237 => b[2] <= 159) THEN 3
    ELSE IF b1 \in 240..244 /\ Len(b) >= 4 /\ IsCont(b[2]) /\ IsCont(b[3])
            /\ IsCont(b[4])
            /\ (b1 = 240 => b[2] >= 144) /\ (b1 = 244 => b[2] <= 143) THEN 4
    ELSE 0

Utf8Point(b, w) ==
    IF w = 1 THEN b[1]
    ELSE IF w = 2 THEN (b[1] - 192) * 64 + (b[2] - 128)
    ELSE IF w = 3 THEN (b[1] - 224) * 4096 + (b[2] - 128) * 64 + (b[3] - 128)
    ELSE (b[1] - 240) * 262144 + (b[2] - 128) * 4096 + (b[3] - 128) * 64
         + (b[4] - 128)

RECURSIVE Utf8Valid(_)
Utf8Valid(b) ==
    IF b = <<>> THEN TRUE
    ELSE LET w == Utf8Width(b) IN
         w # 0 /\ Utf8Valid(SubSeq(b, w + 1, Len(b)))

RECURSIVE Utf8Decode(_)
Utf8Decode(b) ==
    IF b = <<>> THEN <<>>
    ELSE LET w == Utf8Width(b) IN
         <<Utf8Point(b, w)>> \o Utf8Decode(SubSeq(b, w + 1, Len(b)))

(***************************************************************************)
(* file.read(n) at position p: at most n bytes, fewer at end of file.      *)
(***************************************************************************)
Read(p, n) ==
    IF p >= Len(buf) THEN <<>> ELSE SubSeq(buf, p + 1, p + Min(n, Len(buf) - p))

(***************************************************************************)
(* The producer of the dump (the three-segment format).                    *)
(***************************************************************************)
EncInt32(v) ==
    <<v % 256, (v \div 256) % 256, (v \div 65536) % 256,
      (v \div 16777216) % 256>>

EncUInt64(n) == EncInt32(n) \o <<0, 0, 0, 0>>

Utf8Enc1(c) ==
    IF c < 128 THEN <<c>>
    ELSE IF c < 2048 THEN <<192 + (c \div 64), 128 + (c % 64)>>
    ELSE IF c < 65536
         THEN <<224 + (c \div 4096), 128 + ((c \div 64) % 64), 128 + (c % 64)>>
    ELSE <<240 + (c \div 262144), 128 + ((c \div 4096) % 64),
           128 + ((c \div 64) % 64), 128 + (c % 64)>>

Utf8Encode(s) == Flatten([i \in 1..Len(s) |-> Utf8Enc1(s[i])])

EncNode(n) ==
    LET lab == Utf8Encode(n[2]) IN EncInt32(n[1]) \o EncUInt64(Len(lab)) \o lab

EncEdge(e) == EncInt32(e[1]) \o EncInt32(e[2])

Encode(g) ==
    Flatten([i \in 1..Len(g.nodes) |-> EncNode(g.nodes[i])])
    \o EncInt32(Sentinel)
    \o Flatten([i \in 1..Len(g.edges) |-> EncEdge(g.edges[i])])
    \o EncInt32(Sentinel)
    \o Flatten([i \in 1..Len(g.cfg_edges) |-> EncEdge(g.cfg_edges[i])])

(***************************************************************************)
(* Inputs: the dump of a small graph, every proper prefix of such a dump,   *)
(* and every short string of raw words and bytes.                          *)
(***************************************************************************)
NoGraph == [nodes |-> <<>>, edges |-> <<>>, cfg_edges |-> <<>>, none |-> TRUE]

Ids == {-1, 0}
Labels == {<<97, 233>>}
NodeRecs == Ids \X Labels
EdgeRecs == Ids \X {1}

Graphs ==
    [nodes : SeqsUpTo(NodeRecs, MaxNodes),
     edges : SeqsUpTo(EdgeRecs, MaxEdges),
     cfg_edges : SeqsUpTo(EdgeRecs, MaxCfg)]

RawTokens ==
    {EncInt32(-1), EncInt32(0), EncInt32(1), <<97>>, <<195>>, <<169>>}

RawBuffers == {Flatten(s) : s \in SeqsUpTo(RawTokens, MaxRaw)}

Prefixes(b) == {SubSeq(b, 1, k) : k \in 0..(Len(b) - 1)}

TruncatedDumps == UNION {Prefixes(Encode(g)) : g \in Graphs}

NoFigure == [nodes |-> {}, edges |-> {}, data |-> <<>>, arrows |-> <<>>]

InitScript ==
    /\ G = [nodes |-> {}, label |-> <<>>, edges |-> {}]
    /\ predecessors = {}
    /\ nodes_with_edges = {}
    /\ G_filtered = [nodes |-> {}, label |-> <<>>, edges |-> {}]
    /\ first_node = "unset"
    /\ nodes_with_no_successors = {}
    /\ node_colors = <<>>
    /\ pos = <<>>
    /\ cfg_edges_pos = <<>>
    /\ fig = NoFigure
    /\ saved = FALSE

InitRun ==
    /\ fpos = 0
    /\ pc = "nodes"
    /\ err = "none"
    /\ short_read = FALSE
    /\ nodes = <<>>
    /\ edges = <<>>
    /\ cfg_edges = <<>>
    /\ InitScript

Init ==
    /\ \/ /\ src \in Graphs
          /\ buf = Encode(src)
       \/ /\ src = NoGraph
          /\ buf \in TruncatedDumps \cup RawBuffers
    /\ InitRun

(***************************************************************************)
(* An uncaught exception ends the script.                                  *)
(***************************************************************************)
Raise(e, p) ==
    /\ pc' = "failed"
    /\ err' = e
    /\ fpos' = p

(***************************************************************************)
(* One iteration of the node loop.                                         *)
(***************************************************************************)
ReadNode ==
    /\ pc = "nodes"
    /\ LET node_id_bytes == Read(fpos, 4)
           lenb == Read(fpos + 4, 8)
           data_len == UInt64Of(lenb)
           data == Read(fpos + 12, data_len)
       IN
       IF node_id_bytes = <<>>
       THEN /\ pc' = "edges"
            /\ UNCHANGED <<fpos, err, short_read, nodes>>
       ELSE IF Len(node_id_bytes) < 4
       THEN /\ Raise("struct.error", fpos + Len(node_id_bytes))
            /\ UNCHANGED <<short_read, nodes>>
       ELSE IF IsSentinel(Int32Of(node_id_bytes))
       THEN /\ pc' = "edges"
            /\ fpos' = fpos + 4
            /\ UNCHANGED <<err, short_read, nodes>>
       ELSE IF Len(lenb) < 8
       THEN /\ Raise("struct.error", fpos + 4 + Len(lenb))
            /\ UNCHANGED <<short_read, nodes>>
       ELSE IF TooBig(lenb)
       THEN /\ Raise("OverflowError", fpos + 12)
            /\ UNCHANGED <<short_read, nodes>>
       ELSE \/ /\ data_len = Huge
               /\ Raise("MemoryError", fpos + 12)
               /\ UNCHANGED <<short_read, nodes>>
            \/ /\ short_read' = (short_read \/ Len(data) < data_len)
               /\ IF Utf8Valid(data)
                  THEN /\ nodes' = Append(nodes,
                                     <<Int32Of(node_id_bytes), Utf8Decode(data)>>)
                       /\ fpos' = fpos + 12 + Len(data)
                       /\ UNCHANGED <<pc, err>>
                  ELSE /\ Raise("UnicodeDecodeError", fpos + 12 + Len(data))
                       /\ UNCHANGED nodes
    /\ UNCHANGED <<src, buf, edges, cfg_edges, built, classified, rendered>>

ReadEdge_rewind ==
    /\ pc = "edges"
    /\ LET edge_from_bytes == Read(fpos, 4)
           tob == Read(fpos + 4, 4)
       IN
       IF edge_from_bytes = <<>>
       THEN /\ pc' = "cfg"
            /\ UNCHANGED <<fpos, err, edges>>
       ELSE IF Len(edge_from_bytes) < 4
       THEN /\ Raise("struct.error", fpos + Len(edge_from_bytes))
            /\ UNCHANGED edges
       ELSE IF IsSentinel(Int32Of(edge_from_bytes))
       THEN /\ pc' = "cfg"
            /\ fpos' = fpos + 4
            /\ UNCHANGED <<err, edges>>
       ELSE IF Len(tob) < 4
       THEN /\ Raise("struct.error", fpos + 4 + Len(tob))
            /\ UNCHANGED edges
       ELSE /\ edges' = Append(edges, <<Int32Of(edge_from_bytes), Int32Of(tob)>>)
            /\ fpos' = fpos
            /\ UNCHANGED <<pc, err>>
    /\ UNCHANGED <<src, buf, short_read, nodes, cfg_edges, built, classified,
                   rendered>>

(***************************************************************************)
(* One iteration of the data-edge loop.                                    *)
(***************************************************************************)
ReadEdge ==
    /\ pc = "edges"
    /\ LET edge_from_bytes == Read(fpos, 4)
           tob == Read(fpos + 4, 4)
       IN
       IF edge_from_bytes = <<>>
       THEN /\ pc' = "cfg"
            /\ UNCHANGED <<fpos, err, edges>>
       ELSE IF Len(edge_from_bytes) < 4
       THEN /\ Raise("struct.error", fpos + Len(edge_from_bytes))
            /\ UNCHANGED edges
       ELSE IF IsSentinel(Int32Of(edge_from_bytes))
       THEN /\ pc' = "cfg"
            /\ fpos' = fpos + 4
            /\ UNCHANGED <<err, edges>>
       ELSE IF Len(tob) < 4
       THEN /\ Raise("struct.error", fpos + 4 + Len(tob))
            /\ UNCHANGED edges
       ELSE /\ edges' = Append(edges, <<Int32Of(edge_from_bytes), Int32Of(tob)>>)
            /\ fpos' = fpos + 8
            /\ UNCHANGED <<pc, err>>
    /\ UNCHANGED <<src, buf, short_read, nodes, cfg_edges, built, classified,
                   rendered>>

ReadCfg_sentinel ==
    /\ pc = "cfg"
    /\ LET cfg_from_bytes == Read(fpos, 4)
           tob == Read(fpos + 4, 4)
       IN
       IF cfg_from_bytes = <<>>
       THEN /\ pc' = "decoded"
            /\ UNCHANGED <<fpos, err, cfg_edges>>
       ELSE IF Len(cfg_from_bytes) < 4
       THEN /\ Raise("struct.error", fpos + Len(cfg_from_bytes))
            /\ UNCHANGED cfg_edges
       ELSE IF IsSentinel(Int32Of(cfg_from_bytes))
       THEN /\ pc' = "decoded"
            /\ fpos' = fpos + 4
            /\ UNCHANGED <<err, cfg_edges>>
       ELSE IF Len(tob) < 4
       THEN /\ Raise("struct.error", fpos + 4 + Len(tob))
            /\ UNCHANGED cfg_edges
       ELSE /\ cfg_edges' = Append(cfg_edges,
                                   <<Int32Of(cfg_from_bytes), Int32Of(tob)>>)
            /\ fpos' = fpos + 8
            /\ UNCHANGED <<pc, err>>
    /\ UNCHANGED <<src, buf, short_read, nodes, edges, built, classified,
                   rendered>>

(***************************************************************************)
(* One iteration of the control-flow-edge loop; at end of file the         *)
(* function returns the three lists.                                       *)
(***************************************************************************)
ReadCfg ==
    /\ pc = "cfg"
    /\ LET cfg_from_bytes == Read(fpos, 4)
           tob == Read(fpos + 4, 4)
       IN
       IF cfg_from_bytes = <<>>
       THEN /\ pc' = "decoded"
            /\ UNCHANGED <<fpos, err, cfg_edges>>
       ELSE IF Len(cfg_from_bytes) < 4
       THEN /\ Raise("struct.error", fpos + Len(cfg_from_bytes))
            /\ UNCHANGED cfg_edges
       ELSE IF Len(tob) < 4
       THEN /\ Raise("struct.error", fpos + 4 + Len(tob))
            /\ UNCHANGED cfg_edges
       ELSE /\ cfg_edges' = Append(cfg_edges,
                                   <<Int32Of(cfg_from_bytes), Int32Of(tob)>>)
            /\ fpos' = fpos + 8
            /\ UNCHANGED <<pc, err>>
    /\ UNCHANGED <<src, buf, short_read, nodes, edges, built, classified,
                   rendered>>

(***************************************************************************)
(* networkx.DiGraph queries.  Parallel edges collapse: a degree is the     *)
(* number of distinct neighbours.                                          *)
(***************************************************************************)
Range(f) == {f[i] : i \in DOMAIN f}

out_degree(g, n) == Cardinality({e \in g.edges : e[1] = n})

in_degree(g, n) == Cardinality({e \in g.edges : e[2] = n})

\* G.add_node(id, label=...): a repeated id overwrites the label.
LabelOf(ns, id) ==
    LET last == CHOOSE i \in DOMAIN ns :
                    /\ ns[i][1] = id
                    /\ \A j \in DOMAIN ns : ns[j][1] = id => j <= i
    IN ns[last][2]

\* G.add_edge(u, v) adds the endpoints that are not nodes yet.
MakeGraph(ns, es) ==
    [nodes |-> {n[1] : n \in Range(ns)} \cup {e[1] : e \in Range(es)}
                 \cup {e[2] : e \in Range(es)},
     label |-> [id \in {n[1] : n \in Range(ns)} |-> LabelOf(ns, id)],
     edges |-> Range(es)]

subgraph(g, keep) ==
    [nodes |-> g.nodes \cap keep,
     label |-> [id \in DOMAIN g.label \cap keep |-> g.label[id]],
     edges |-> {e \in g.edges : e[1] \in keep /\ e[2] \in keep}]

Targets(cfg) == {e[2] : e \in Range(cfg)}

NodesWithEdges_regrouped(g, preds) ==
    {node \in g.nodes :
        (out_degree(g, node) > 0 \/ in_degree(g, node) > 0) /\ node \in preds}

NodesWithEdges(g, preds) ==
    {node \in g.nodes :
        out_degree(g, node) > 0 \/ (in_degree(g, node) > 0 /\ node \in preds)}

(***************************************************************************)
(* Lines 65-76: build G, filter it.                                        *)
(***************************************************************************)
BuildGraph ==
    /\ pc = "decoded"
    /\ LET g == MakeGraph(nodes, edges)
           keep == NodesWithEdges(g, Targets(cfg_edges))
       IN /\ G' = g
          /\ predecessors' = Targets(cfg_edges)
          /\ nodes_with_edges' = keep
          /\ G_filtered' = subgraph(g, keep)
    /\ pc' = "built"
    /\ UNCHANGED <<src, buf, fpos, err, short_read, decoded, classified,
                   rendered>>

(***************************************************************************)
(* Lines 79-83: entry node, exit nodes, colours.                           *)
(***************************************************************************)
FirstNode_last(cfg) == cfg[Len(cfg)][1]

FirstNode(cfg) == cfg[1][1]

NoSuccessors_any(g, cfg, preds) ==
    {node \in g.nodes : \A i \in DOMAIN cfg : cfg[i][1] # node}

NoSuccessors(g, cfg, preds) ==
    {node \in g.nodes :
        (\A i \in DOMAIN cfg : cfg[i][1] # node) /\ node \in preds}

ColorOf(node, first, exits) ==
    IF node = first THEN "green"
    ELSE IF node \in exits THEN "red"
    ELSE "skyblue"

Classify_default ==
    /\ pc = "built"
    /\ LET exits == NoSuccessors(G_filtered, cfg_edges, Targets(cfg_edges))
       IN /\ first_node' =
                 IF cfg_edges = <<>> THEN "unset" ELSE FirstNode(cfg_edges)
          /\ predecessors' = Targets(cfg_edges)
          /\ nodes_with_no_successors' = exits
          /\ node_colors' =
                 [node \in G_filtered.nodes |->
                     IF cfg_edges = <<>> THEN "skyblue"
                     ELSE ColorOf(node, FirstNode(cfg_edges), exits)]
          /\ pc' = "classified"
          /\ UNCHANGED <<fpos, err>>
    /\ UNCHANGED <<src, buf, short_read, decoded, G, nodes_with_edges,
                   G_filtered, rendered>>

Classify ==
    /\ pc = "built"
    /\ IF cfg_edges = <<>>
       THEN /\ Raise("IndexError", fpos)
            /\ UNCHANGED <<predecessors, classified>>
       ELSE LET exits == NoSuccessors(G_filtered, cfg_edges,
                                      Targets(cfg_edges))
            IN /\ first_node' = FirstNode(cfg_edges)
               /\ predecessors' = Targets(cfg_edges)
               /\ nodes_with_no_successors' = exits
               /\ node_colors' =
                      [node \in G_filtered.nodes |->
                          ColorOf(node, FirstNode(cfg_edges), exits)]
               /\ pc' = "classified"
               /\ UNCHANGED <<fpos, err>>
    /\ UNCHANGED <<src, buf, short_read, decoded, G, nodes_with_edges,
                   G_filtered, rendered>>

(***************************************************************************)
(* Lines 85-87: the layout engine returns a position for every node of     *)
(* G_filtered; nx.draw draws the nodes and edges of G_filtered.            *)
(* Coordinates are in units of 0.002, on points whose distances are whole. *)
(***************************************************************************)
Points == {<<0, 0>>, <<3, 4>>}

Layout ==
    /\ pc = "classified"
    /\ pos' \in [G_filtered.nodes -> Points]
    /\ fig' = [fig EXCEPT !.nodes = G_filtered.nodes,
                          !.edges = G_filtered.edges]
    /\ pc' = "laid_out"
    /\ UNCHANGED <<src, buf, fpos, err, short_read, decoded, built, classified,
                   cfg_edges_pos, saved>>

(***************************************************************************)
(* get_offset_pos(pos, edges, offset_scale=0.03).                          *)
(***************************************************************************)
OffsetScale == 15

Sqrt(n) == CHOOSE r \in 0..n : r * r = n

HasPos(p, es) ==
    \A i \in DOMAIN es : es[i][1] \in DOMAIN p /\ es[i][2] \in DOMAIN p

RECURSIVE OffsetLoop(_, _, _)
OffsetLoop(p, es, offset_pos) ==
    IF es = <<>> THEN offset_pos
    ELSE LET edge == Head(es)
             dx == p[edge[2]][1] - p[edge[1]][1]
             dy == p[edge[2]][2] - p[edge[1]][2]
             length == Sqrt(dx * dx + dy * dy)
         IN
         IF length = 0 THEN OffsetLoop(p, Tail(es), offset_pos)
         ELSE LET offset_x == (OffsetScale * dy) \div length
                  offset_y == (-OffsetScale * dx) \div length
                  o1 == [offset_pos EXCEPT
                            ![edge[1]] = <<@[1] + offset_x, @[2] + offset_y>>]
                  o2 == [o1 EXCEPT
                            ![edge[2]] = <<@[1] + offset_x, @[2] + offset_y>>]
              IN OffsetLoop(p, Tail(es), o2)

get_offset_pos(p, es) == OffsetLoop(p, es, p)

(***************************************************************************)
(* Lines 89-90: offsets of the control-flow edges.                         *)
(***************************************************************************)
Offsets ==
    /\ pc = "laid_out"
    /\ IF HasPos(pos, cfg_edges)
       THEN /\ cfg_edges_pos' = get_offset_pos(pos, cfg_edges)
            /\ pc' = "offset"
            /\ UNCHANGED <<fpos, err>>
       ELSE /\ Raise("KeyError", fpos)
            /\ UNCHANGED cfg_edges_pos
    /\ UNCHANGED <<src, buf, short_read, decoded, built, classified, pos, fig,
                   saved>>

(***************************************************************************)
(* Lines 92-109: data edges and control-flow arrows whose two endpoints    *)
(* are in G_filtered.  An arrow of length 0 is skipped.                    *)
(***************************************************************************)
RECURSIVE Select(_, _)
Select(es, keep) ==
    IF es = <<>> THEN <<>>
    ELSE IF Head(es)[1] \in keep /\ Head(es)[2] \in keep
         THEN <<Head(es)>> \o Select(Tail(es), keep)
         ELSE Select(Tail(es), keep)

RECURSIVE Arrows(_, _, _)
Arrows(es, p, op) ==
    IF es = <<>> THEN <<>>
    ELSE LET e == Head(es)
             dx == op[e[2]][1] - p[e[1]][1]
             dy == op[e[2]][2] - p[e[1]][2]
         IN IF dx = 0 /\ dy = 0
            THEN Arrows(Tail(es), p, op)
            ELSE <<[edge |-> e, dx |-> dx, dy |-> dy]>>
                 \o Arrows(Tail(es), p, op)

DrawEdges ==
    /\ pc = "offset"
    /\ fig' = [fig EXCEPT
                 !.data = Select(edges, G_filtered.nodes),
                 !.arrows = Arrows(Select(cfg_edges, G_filtered.nodes), pos,
                                   cfg_edges_pos)]
    /\ pc' = "drawn"
    /\ UNCHANGED <<src, buf, fpos, err, short_read, decoded, built, classified,
                   pos, cfg_edges_pos, saved>>

(***************************************************************************)
(* Line 111: plt.savefig("out.png").                                       *)
(***************************************************************************)
SaveFig ==
    /\ pc = "drawn"
    /\ saved' = TRUE
    /\ pc' = "done"
    /\ UNCHANGED <<src, buf, fpos, err, short_read, decoded, built, classified,
                   pos, cfg_edges_pos, fig>>

Next ==
    \/ ReadNode
    \/ ReadEdge
    \/ ReadCfg
    \/ BuildGraph
    \/ Classify
    \/ Layout
    \/ Offsets
    \/ DrawEdges
    \/ SaveFig

Spec == Init /\ [][Next]_vars

(***************************************************************************)
(* read_graph_binary alone.  The script is single-threaded and nothing     *)
(* suspends it between statements: an enabled step is eventually taken.    *)
(***************************************************************************)
Decode ==
    \/ ReadNode
    \/ ReadEdge
    \/ ReadCfg

FairDecode == Init /\ [][Decode]_vars /\ WF_vars(Decode)

(***************************************************************************)
(* The script from the point where read_graph_binary has returned the      *)
(* dump of a graph without sentinel ids.                                   *)
(***************************************************************************)
PNodeRecs == {2} \X {<<97>>}
PEdgeRecs == {0, 1} \X {0, 1, 2}
PCfgRecs == {0, 1} \X {1, 2}

PGraphs ==
    [nodes : SeqsUpTo(PNodeRecs, MaxPNodes),
     edges : SeqsUpTo(PEdgeRecs, MaxPEdges),
     cfg_edges : SeqsUpTo(PCfgRecs, MaxPCfg)]

InitPipe ==
    /\ src \in PGraphs
    /\ buf = Encode(src)
    /\ fpos = Len(buf)
    /\ pc = "decoded"
    /\ err = "none"
    /\ short_read = FALSE
    /\ nodes = src.nodes
    /\ edges = src.edges
    /\ cfg_edges = src.cfg_edges
    /\ InitScript

NextPipe ==
    \/ BuildGraph
    \/ Classify
    \/ Layout
    \/ Offsets
    \/ DrawEdges
    \/ SaveFig

PipeSpec == InitPipe /\ [][NextPipe]_vars

(***************************************************************************)
(* Properties.                                                             *)
(***************************************************************************)
Decoding == pc \in {"nodes", "edges", "cfg"}

DecodeErrors ==
    {"struct.error", "OverflowError", "MemoryError", "UnicodeDecodeError"}

\* read_graph_binary has returned its three lists.
Returned == ~Decoding /\ err \notin DecodeErrors

\* Lines 79-83 have run without raising.
ClassifyDone ==
    \/ pc \in {"classified", "laid_out", "offset", "drawn", "done"}
    \/ pc = "failed" /\ err = "KeyError"

AtWord(v) == Len(Read(fpos, 4)) = 4 /\ Int32Of(Read(fpos, 4)) = v

\* C1: the node list never holds a node with id -1 and the data-edge list
\* never holds an edge with from = -1; a record that starts with -1 ends the
\* node segment (the data-edge segment) after exactly its 4 bytes, with
\* nothing recorded, and the next segment starts right behind it.
SentinelBoundary ==
    /\ [](/\ \A i \in DOMAIN nodes : nodes[i][1] # -1
          /\ \A i \in DOMAIN edges : edges[i][1] # -1)
    /\ [][/\ (pc = "nodes" /\ AtWord(-1)) =>
                (pc' = "edges" /\ fpos' = fpos + 4 /\ nodes' = nodes)
          /\ (pc = "edges" /\ AtWord(-1)) =>
                (pc' = "cfg" /\ fpos' = fpos + 4 /\ edges' = edges)]_vars

SentinelBoundaryWitness ==
    /\ pc = "cfg"
    /\ nodes # <<>>
    /\ edges # <<>>
    /\ fpos >= 8
    /\ fpos < Len(buf)
    /\ Int32Of(Read(fpos - 4, 4)) = -1
    /\ Int32Of(Read(fpos - 12 - 8 * (Len(edges) - 1), 4)) = -1

\* C2: in the control-flow segment every complete 8-byte record, one whose
\* from is -1 included, is appended as an edge and the segment goes on; the
\* segment ends only where no byte is left.
CfgHasNoSentinel ==
    [][/\ (pc = "cfg" /\ Len(buf) - fpos >= 8) =>
             /\ pc' = "cfg"
             /\ fpos' = fpos + 8
             /\ cfg_edges' = Append(cfg_edges,
                    <<Int32Of(Read(fpos, 4)), Int32Of(Read(fpos + 4, 4))>>)
       /\ (pc = "cfg" /\ pc' = "decoded") => fpos = Len(buf)]_vars

CfgHasNoSentinelWitness ==
    /\ pc = "decoded"
    /\ Len(cfg_edges) >= 2
    /\ cfg_edges[1][1] = -1

\* C3: a buffer that ends inside a node label makes the decoder fail: no node
\* with a label shorter than its declared length is recorded or returned.
TruncatedLabelFails == short_read => pc = "failed"

\* C4: once classified, the entry node is the from of the first control-flow
\* edge, whatever the later control-flow edges, the data edges and the node
\* table are.
EntryIsFirstSource == ClassifyDone => first_node = cfg_edges[1][1]

EntryIsFirstSourceWitness ==
    /\ ClassifyDone
    /\ Len(cfg_edges) >= 2
    /\ cfg_edges[2][1] # cfg_edges[1][1]
    /\ first_node \notin {n[1] : n \in Range(nodes)}
    /\ first_node \notin G.nodes

IsControlFlowTarget(id) == \E i \in DOMAIN cfg_edges : cfg_edges[i][2] = id

IsControlFlowSource(id) == \E i \in DOMAIN cfg_edges : cfg_edges[i][1] = id

outDegree(id) == Cardinality({i \in DOMAIN edges : edges[i][1] = id})

inDegree(id) == Cardinality({i \in DOMAIN edges : edges[i][2] = id})

AllIds ==
    {n[1] : n \in Range(nodes)}
    \cup {e[1] : e \in Range(edges)} \cup {e[2] : e \in Range(edges)}
    \cup {e[1] : e \in Range(cfg_edges)} \cup {e[2] : e \in Range(cfg_edges)}

IsVisible(id) ==
    outDegree(id) > 0 \/ (inDegree(id) > 0 /\ IsControlFlowTarget(id))

VisibleSubset ==
    pc \notin {"nodes", "edges", "cfg", "decoded"} /\ Returned =>
        /\ nodes_with_edges = {id \in AllIds : IsVisible(id)}
        /\ G_filtered.nodes = {id \in AllIds : IsVisible(id)}

VisibleSubsetWitness ==
    /\ pc = "built"
    /\ \E a \in AllIds :
          outDegree(a) > 0 /\ ~IsControlFlowTarget(a) /\ a \in G_filtered.nodes
    /\ \E b \in AllIds :
          /\ outDegree(b) = 0 /\ inDegree(b) > 0 /\ ~IsControlFlowTarget(b)
          /\ b \notin G_filtered.nodes
    /\ \E c \in AllIds :
          /\ outDegree(c) = 0 /\ inDegree(c) = 0 /\ IsControlFlowTarget(c)
          /\ c \notin G_filtered.nodes

\* C7: with at least one control-flow edge, no stage after the decoder fails,
\* whatever endpoints are missing from the node table or the filtered graph.
DanglingTolerated == (Returned /\ cfg_edges # <<>>) => pc # "failed"

\* C8 as claimed: the dump of any graph decodes to its node set, its data
\* edges and its control-flow edges.
RoundTrip ==
    (src # NoGraph /\ buf = Encode(src) /\ Returned) =>
        /\ Range(nodes) = Range(src.nodes)
        /\ edges = src.edges
        /\ cfg_edges = src.cfg_edges

HasSentinelId(g) ==
    \/ \E i \in DOMAIN g.nodes : g.nodes[i][1] = -1
    \/ \E i \in DOMAIN g.edges : g.edges[i][1] = -1

\* C8: the dump of a graph with no node id -1 and no data edge from -1
\* decodes to its node set, its data edges in order with duplicates, and its
\* control-flow edges in order.
RoundTripNoSentinel ==
    (src # NoGraph /\ ~HasSentinelId(src) /\ buf = Encode(src) /\ Returned) =>
        /\ Range(nodes) = Range(src.nodes)
        /\ edges = src.edges
        /\ cfg_edges = src.cfg_edges

RoundTripNoSentinelWitness ==
    /\ src # NoGraph
    /\ ~HasSentinelId(src)
    /\ buf = Encode(src)
    /\ pc = "decoded"
    /\ \E i \in DOMAIN src.nodes : src.nodes[i][2] # <<>>
    /\ Len(src.edges) = 2
    /\ src.edges[1] = src.edges[2]
    /\ Len(src.cfg_edges) = 2
    /\ src.cfg_edges[1] # src.cfg_edges[2]

\* C9: when the decoder returns no control-flow edge the script stops at the
\* entry-node lookup: no colours, no layout, no figure, no image.
NoEntryHalts ==
    (Returned /\ cfg_edges = <<>> /\ pc \notin {"decoded", "built"}) =>
        /\ pc = "failed"
        /\ err = "IndexError"
        /\ node_colors = <<>>
        /\ pos = <<>>
        /\ fig = NoFigure
        /\ ~saved

NoEntryHaltsWitness ==
    /\ pc = "failed"
    /\ err = "IndexError"
    /\ nodes # <<>>
    /\ edges # <<>>
    /\ G_filtered.nodes # {}
    /\ Int32Of(Read(fpos - 8, 4)) # -1

SegmentRank(p) ==
    IF p = "nodes" THEN 0 ELSE IF p = "edges" THEN 1 ELSE IF p = "cfg" THEN 2
    ELSE 3

\* C10: the cursor never moves back, an iteration that stays in its segment
\* consumes at least 4 bytes, the segments follow each other in the order
\* nodes, data edges, control-flow edges, and the decoder ends, by returning
\* or by failing.
DecodeTerminates ==
    /\ [][/\ fpos' >= fpos
          /\ (Decoding /\ pc' = pc) => fpos' >= fpos + 4
          /\ SegmentRank(pc') >= SegmentRank(pc)]_vars
    /\ <>(~Decoding)

DecodeTerminatesWitness ==
    /\ pc = "decoded"
    /\ nodes # <<>>
    /\ edges # <<>>
    /\ cfg_edges # <<>>

====
